---- MODULE Spec2Model ----
(***************************************************************************)
(* The path-tracing integrator of optixLisa: the ray-generation program,   *)
(* the radiance and occlusion programs and the next-event-estimation       *)
(* sampler, in both source variants (src/shader.cu and shader2.cu).        *)
(*                                                                         *)
(* float values are modelled as exact rationals <<n, d>> (d > 0, lowest    *)
(* terms), so the formulas below are statements of real arithmetic: float  *)
(* rounding is not modelled.  Geometry is quantised: a direction is known  *)
(* by the sign of its x component (the scene's direction class) and by a   *)
(* three-level cosine against the surface normal.                          *)
(***************************************************************************)
EXTENDS Integers, Sequences, FiniteSets, TLC

(***************************************************************************)
(* Bounds of the model.                                                    *)
(***************************************************************************)
MaxSamples == 2      \* samples_per_launch ranges over 1..MaxSamples
MaxFrame   == 2      \* subframe_index ranges over 0..MaxFrame
MaxPixels  == 4      \* image shapes have width * height <= MaxPixels
SeedBits   == 8      \* the generator state is kept to its low SeedBits bits

(***************************************************************************)
(* Program constants.                                                      *)
(***************************************************************************)
nb_bounces == 3      \* __raygen__rg: const int nb_bounces = 3
count      == 7      \* shoot_ray_to_light: const unsigned int count = 7u

(***************************************************************************)
(* Exact rational arithmetic standing for float.                           *)
(***************************************************************************)
Abs(a) == IF a < 0 THEN -a ELSE a

RECURSIVE GCD(_, _)
GCD(a, b) == IF b = 0 THEN a ELSE GCD(b, a % b)

Rat(n, d) ==
  LET g == GCD(Abs(n), Abs(d))
      s == IF d < 0 THEN -1 ELSE 1
  IN  <<(s * n) \div g, (s * d) \div g>>

RInt(n)    == <<n, 1>>
LCM(a, b)  == (a \div GCD(a, b)) * b
RAdd(a, b) == LET l == LCM(a[2], b[2])
              IN  Rat(a[1] * (l \div a[2]) + b[1] * (l \div b[2]), l)
RNeg(a)    == <<-a[1], a[2]>>
RSub(a, b) == RAdd(a, RNeg(b))
RMul(a, b) == LET g1 == GCD(Abs(a[1]), b[2])
                  g2 == GCD(Abs(b[1]), a[2])
              IN  IF a[1] = 0 \/ b[1] = 0 THEN <<0, 1>>
                  ELSE <<(a[1] \div g1) * (b[1] \div g2),
                         (a[2] \div g2) * (b[2] \div g1)>>
RDiv(a, b) == IF b[1] < 0 THEN RMul(a, <<-b[2], -b[1]>>)
              ELSE RMul(a, <<b[2], b[1]>>)
RLe(a, b)  == LET l == LCM(a[2], b[2])
              IN  a[1] * (l \div a[2]) <= b[1] * (l \div b[2])
RMin(a, b) == IF RLe(a, b) THEN a ELSE b
RMax(a, b) == IF RLe(a, b) THEN b ELSE a

\* float3 and its channel-wise operators (sutil/vec_math.h)
make_float3(s) == <<s, s, s>>
VAdd(u, v)     == [c \in 1..3 |-> RAdd(u[c], v[c])]
VSub(u, v)     == [c \in 1..3 |-> RSub(u[c], v[c])]
VMul(u, v)     == [c \in 1..3 |-> RMul(u[c], v[c])]
VScale(s, v)   == [c \in 1..3 |-> RMul(s, v[c])]
VDivS(v, s)    == [c \in 1..3 |-> RDiv(v[c], s)]
VLe(u, v)      == \A c \in 1..3 : RLe(u[c], v[c])
clamp(x, lo, hi) == RMax(lo, RMin(x, hi))
lerp(a, b, t)  == VAdd(a, VScale(t, VSub(b, a)))

Zero3 == make_float3(RInt(0))
One3  == make_float3(RInt(1))

(***************************************************************************)
(* State.  variant is the source file built: 1 is src/shader.cu, 2 is      *)
(* shader2.cu; ltr tells whether the build evaluates the arguments of a    *)
(* call left to right (C++ leaves the order unspecified).  params is the   *)
(* launch's Params record (the buffers it points to are accum_buffer and   *)
(* frame_buffer); scene is what the traversable handle and the shader      *)
(* binding table answer.  task holds the registers and locals of every     *)
(* __raygen__rg invocation of the launch.  estimates is a history          *)
(* variable: the per-frame estimates each cell has been given so far.      *)
(***************************************************************************)
VARIABLES variant, ltr, scene, params, accum_buffer, frame_buffer, task, estimates

vars == <<variant, ltr, scene, params, accum_buffer, frame_buffer, task, estimates>>

(***************************************************************************)
(* random.h: the generator.  Only the low SeedBits bits of the 32-bit      *)
(* state are kept; the low bits of a power-of-two LCG are themselves an    *)
(* LCG with the same multiplier and increment.                             *)
(***************************************************************************)
SeedMod == 2 ^ SeedBits

lcg(prev) == ((1664525 % SeedMod) * prev + (1013904223 % SeedMod)) % SeedMod

\* a hash of the two words, deterministic, into the generator's state space
tea(v0, v1) == (v0 * 29 + v1 * 67 + 11) % SeedMod

\* float rnd(unsigned int& prev): the new state and the value in [0, 1)
rnd(prev) == [seed |-> lcg(prev), val |-> Rat(lcg(prev), SeedMod)]

\* float rng(unsigned int& seed): the new state and the value in [-1, 1)
Signed(r)  == [seed |-> r.seed, val |-> RSub(RMul(RInt(2), r.val), RInt(1))]
rng(seed)  == Signed(rnd(seed))

(***************************************************************************)
(* Vector geometry, quantised.  A normalised vector keeps each             *)
(* component's sign and one of three magnitudes: 0, 1 when the component   *)
(* carries at least half of the squared length, 1/2 otherwise.  A normal   *)
(* is one of the axes "x", "y", "z".                                       *)
(***************************************************************************)
RSq(a) == RMul(a, a)

RSum(v) == IF Len(v) = 2 THEN RAdd(RSq(v[1]), RSq(v[2]))
           ELSE RAdd(RSq(v[1]), RAdd(RSq(v[2]), RSq(v[3])))

normalize(v) ==
  [c \in 1..Len(v) |->
     IF v[c][1] = 0 THEN RInt(0)
     ELSE LET big == RLe(RSub(RSum(v), RSq(v[c])), RSq(v[c]))
              mag == IF big THEN RInt(1) ELSE Rat(1, 2)
          IN  IF v[c][1] < 0 THEN RNeg(mag) ELSE mag]

Axis(n) == CASE n = "x" -> 1 [] n = "y" -> 2 [] OTHER -> 3

dot(n, v) == v[Axis(n)]

\* faceforward(n, i, nref) = n * copysignf(1.0f, dot(i, nref))
faceforward(n, i, nref) ==
  IF RLe(RInt(0), dot(i, nref)) THEN n ELSE [c \in 1..3 |-> RNeg(n[c])]

(***************************************************************************)
(* The scene: what a ray meets is a function of its origin and of its      *)
(* direction class.  Objects are one emitter ("light") and one diffuse     *)
(* surface ("wall") whose every point is "p_wall" with normal "z".         *)
(***************************************************************************)
Classes == {"east", "west"}

ClassOf(d) == IF RLe(RInt(0), d[1]) THEN "east" ELSE "west"

LightEmission == <<RInt(4), RInt(2), RInt(1)>>
bg_color      == <<Rat(1, 2), Rat(1, 4), RInt(0)>>

\* rt_data->material of the hit group of an object
MaterialOf(obj) ==
  IF obj = "light"
  THEN [emit |-> TRUE,  emission_color |-> LightEmission, diffuse_color |-> Zero3]
  ELSE [emit |-> FALSE, emission_color |-> Zero3, diffuse_color |-> scene.albedo]

\* what optixTrace finds along the ray (origin, direction)
Closest(origin, d) ==
  CASE origin = "eye"    -> scene.cam[ClassOf(d)]
    [] origin = "p_wall" -> scene.surf[ClassOf(d)]
    [] origin = "junk1"  -> "miss"
    [] OTHER             -> "light"

(***************************************************************************)
(* struct Intersection.  The members without an initializer hold whatever  *)
(* the stack held: a value that depends on junk, which differs from one    *)
(* run to another.                                                         *)
(***************************************************************************)
JunkValues == {1, 2}

JunkPoint(junk)  == IF junk = 1 THEN "junk1" ELSE "junk2"
JunkNormal(junk) == IF junk = 1 THEN "x" ELSE "y"
JunkMaterial(junk) ==
  [emit |-> junk = 1, emission_color |-> make_float3(RInt(junk)),
   diffuse_color |-> make_float3(RInt(junk))]

IntersectionHitUninit(junk) ==
  [material    |-> JunkMaterial(junk),
   normal      |-> JunkNormal(junk),
   xyz         |-> JunkPoint(junk),
   mask_color  |-> make_float3(RInt(1)),
   accum_color |-> make_float3(RInt(0)),
   hit         |-> junk = 1,
   done        |-> FALSE,
   seed        |-> (junk * 77) % SeedMod]
Intersection(junk) ==
  [material    |-> JunkMaterial(junk),
   normal      |-> JunkNormal(junk),
   xyz         |-> JunkPoint(junk),
   mask_color  |-> make_float3(RInt(1)),
   accum_color |-> make_float3(RInt(0)),
   hit         |-> FALSE,
   done        |-> FALSE,
   seed        |-> (junk * 77) % SeedMod]

(***************************************************************************)
(* History of the generator states a launch has consumed.                  *)
(***************************************************************************)
RECURSIVE Repeats(_, _)
Repeats(used, seeds) ==
  IF seeds = <<>> THEN FALSE
  ELSE Head(seeds) \in used \/ Repeats(used \cup {Head(seeds)}, Tail(seeds))

Consume(l, seeds) ==
  [l EXCEPT !.used  = @ \cup {seeds[n] : n \in 1..Len(seeds)},
            !.reuse = @ \/ Repeats(l.used, seeds)]

\* the three draws of make_float3(rng(seed), rng(seed), rng(seed))
Pack3(seed, r1, r2, r3) ==
  [v    |-> IF ltr THEN <<r1.val, r2.val, r3.val>>
            ELSE <<r3.val, r2.val, r1.val>>,
   seed |-> r3.seed,
   read |-> <<seed, r1.seed, r2.seed>>]
Draw3(seed) ==
  Pack3(seed, rng(seed), rng(rng(seed).seed), rng(rng(rng(seed).seed).seed))

\* the two draws of make_float2(rng(seed), rng(seed))
Pack2(seed, r1, r2) ==
  [v    |-> IF ltr THEN <<r1.val, r2.val>> ELSE <<r2.val, r1.val>>,
   seed |-> r2.seed,
   read |-> <<seed, r1.seed>>]
Draw2(seed) == Pack2(seed, rng(seed), rng(rng(seed).seed))

\* shoot_ray_hemisphere: the direction, the generator state after it, and
\* the states it consumed.  shader.cu normalises before faceforward,
\* shader2.cu after it.
Hemisphere(normal, d) ==
  [dir  |-> IF variant = 1
            THEN faceforward(normalize(d.v), normal, normalize(d.v))
            ELSE normalize(faceforward(d.v, normal, d.v)),
   seed |-> d.seed,
   read |-> d.read]
shoot_ray_hemisphere(normal, seed) == Hemisphere(normal, Draw3(seed))

(***************************************************************************)
(* One invocation of __raygen__rg: its locals, and where it stands.        *)
(* used, reuse, nq, contrib, probes, rd, wr and est are history fields.    *)
(***************************************************************************)
NewTask(idx, junk) ==
  [pc            |-> "begin",
   idx           |-> idx,
   junk          |-> junk,
   seed          |-> 0,
   i             |-> 0,
   j             |-> 0,
   accum_color   |-> Zero3,
   ray_origin    |-> "eye",
   ray_direction |-> Zero3,
   intersection  |-> Intersection(junk),
   temp          |-> Intersection(junk),
   pi            |-> 0,
   dir           |-> Zero3,
   nee           |-> Zero3,
   image_index   |-> 0,
   used          |-> {},
   reuse         |-> FALSE,
   nq            |-> 0,
   contrib       |-> <<>>,
   probes        |-> <<>>,
   rd            |-> {},
   wr            |-> {},
   fb            |-> {},
   est           |-> Zero3]

\* __raygen__rg, lines 116-130: the seed of the invocation
RaygenSeed(idx) == tea(idx[2] * params.width + idx[1], params.subframe_index)

RaygenBeginGuard(l) == l.pc = "begin"
RaygenBeginEffect(l) ==
  [l EXCEPT !.seed = RaygenSeed(l.idx), !.accum_color = make_float3(RInt(0)),
            !.i = 0, !.pc = "sample"]

\* the camera ray through pixel idx with the sub-pixel jitter
CameraDirection(idx, jitter) ==
  LET dx == RSub(RDiv(RAdd(RInt(2 * idx[1]), jitter[1]), RInt(params.width)), RInt(1))
      dy == RSub(RDiv(RAdd(RInt(2 * idx[2]), jitter[2]), RInt(params.height)), RInt(1))
  IN  normalize(<<dx, dy, RInt(1)>>)

\* lines 132-141: a new sample
SampleBeginGuard(l) == l.pc = "sample" /\ l.i < params.samples_per_launch
Jitter(v) == IF variant = 1 THEN normalize(v) ELSE v
SampleWith(l, d) ==
  [Consume(l, d.read) EXCEPT
     !.intersection  = [Intersection(l.junk) EXCEPT !.seed = l.seed],
     !.seed          = d.seed,
     !.ray_direction = CameraDirection(l.idx, Jitter(d.v)),
     !.ray_origin    = "eye",
     !.j             = 0,
     !.nq            = 0,
     !.contrib       = <<>>,
     !.pc            = "bounce"]
SampleBeginEffect(l) == SampleWith(l, Draw2(l.seed))

(***************************************************************************)
(* trace_radiance (line 145) and the program it runs.                      *)
(***************************************************************************)
RadianceGuardOneMore(l) == l.pc = "bounce" /\ l.j <= nb_bounces
RadianceGuard(l) == l.pc = "bounce" /\ l.j < nb_bounces

\* __miss__radiance
MissRadianceGuard(l) ==
  RadianceGuard(l) /\ Closest(l.ray_origin, l.ray_direction) = "miss"
MissRadianceEffectMinus(l) ==
  [l EXCEPT !.intersection.done = TRUE,
            !.intersection.accum_color =
               VSub(@, VMul(bg_color, l.intersection.mask_color)),
            !.nq = @ + 1,
            !.pc = "traced"]
MissRadianceEffect(l) ==
  [l EXCEPT !.intersection.done = TRUE,
            !.intersection.accum_color =
               VAdd(@, VMul(bg_color, l.intersection.mask_color)),
            !.nq = @ + 1,
            !.pc = "traced"]

\* __closesthit__radiance on an emitter
HitEmitterGuard(l) ==
  /\ RadianceGuard(l)
  /\ Closest(l.ray_origin, l.ray_direction) # "miss"
  /\ MaterialOf(Closest(l.ray_origin, l.ray_direction)).emit
HitEmitterEffect(l) ==
  LET m == MaterialOf(Closest(l.ray_origin, l.ray_direction))
  IN  [l EXCEPT !.intersection.accum_color =
                   VAdd(@, VMul(m.emission_color, l.intersection.mask_color)),
                !.intersection.done = TRUE,
                !.nq = @ + 1,
                !.pc = "traced"]

\* __closesthit__radiance on a diffuse surface, up to the call of
\* shoot_ray_to_light
HitDiffuseGuard(l) ==
  /\ RadianceGuard(l)
  /\ Closest(l.ray_origin, l.ray_direction) # "miss"
  /\ ~MaterialOf(Closest(l.ray_origin, l.ray_direction)).emit
HitDiffuseEffectAssign(l) ==
  LET m == MaterialOf(Closest(l.ray_origin, l.ray_direction))
  IN  [l EXCEPT !.intersection.done = FALSE,
                !.intersection.xyz = "p_wall",
                !.intersection.normal = "z",
                !.intersection.mask_color = m.diffuse_color,
                !.nq = @ + 1,
                !.pi = 0,
                !.probes = <<>>,
                !.pc = "probe"]
HitDiffuseEffect(l) ==
  LET m == MaterialOf(Closest(l.ray_origin, l.ray_direction))
  IN  [l EXCEPT !.intersection.done = FALSE,
                !.intersection.xyz = "p_wall",
                !.intersection.normal = "z",
                !.intersection.mask_color = VMul(@, m.diffuse_color),
                !.nq = @ + 1,
                !.pi = 0,
                !.probes = <<>>,
                !.pc = "probe"]

(***************************************************************************)
(* shoot_ray_to_light: one probe is lines 204-206 with the occlusion       *)
(* program trace_occlusion runs.  shader.cu hands a fresh Intersection to  *)
(* the probe, shader2.cu the path's own.                                   *)
(***************************************************************************)
ProbeGuard(l) == l.pc = "probe" /\ l.pi < count

ProbeRay(l) == shoot_ray_hemisphere(l.intersection.normal, l.intersection.seed)

ProbeObject(l) == Closest(l.intersection.xyz, ProbeRay(l).dir)

\* lines 204-205: the direction drawn and the record the probe is given
ProbeWith(l, h) ==
  [Consume(l, h.read) EXCEPT
     !.intersection.seed = h.seed,
     !.dir    = h.dir,
     !.temp   = IF variant = 1 THEN Intersection(l.junk) ELSE @,
     !.probes = Append(@, Closest(l.intersection.xyz, h.dir)),
     !.pc     = "probed"]
ProbeSetup(l) == ProbeWith(l, ProbeRay(l))

\* __miss__occlusion
MissOcclusionGuard(l) == ProbeGuard(l) /\ ProbeObject(l) = "miss"
MissOcclusionOn(p) ==
  IF variant = 1 THEN [p EXCEPT !.temp.hit = FALSE]
  ELSE [p EXCEPT !.intersection.hit = FALSE]
MissOcclusionEffect(l) == MissOcclusionOn(ProbeSetup(l))

\* __closesthit__occlusion
ClosestHitOcclusionGuard(l) == ProbeGuard(l) /\ ProbeObject(l) # "miss"
ClosestHitOcclusionOn(p, m) ==
  IF ~m.emit THEN p
  ELSE IF variant = 1
  THEN [p EXCEPT !.temp.material = m, !.temp.hit = TRUE]
  ELSE [p EXCEPT !.intersection.material = m, !.intersection.hit = TRUE]
ClosestHitOcclusionEffect(l) ==
  ClosestHitOcclusionOn(ProbeSetup(l), MaterialOf(ProbeObject(l)))

\* the record whose hit flag line 208 tests
Probed(l) == IF variant = 1 THEN l.temp ELSE l.intersection

\* lines 208-211: the probe found an emitter
ProbeHitGuard(l) == l.pc = "probed" /\ Probed(l).hit
ProbeHitEffect(l) ==
  LET d == clamp(dot(l.intersection.normal, l.dir), RInt(0), RInt(1))
  IN  [l EXCEPT !.nee = VScale(d, Probed(l).material.emission_color),
                !.pc  = "shade"]

\* line 203: the next probe
ProbeNextGuard(l) == l.pc = "probed" /\ ~Probed(l).hit
ProbeNextEffect(l) == [l EXCEPT !.pi = @ + 1, !.pc = "probe"]

\* line 213: no probe found an emitter
ProbeExhaustedGuard(l) == l.pc = "probe" /\ ~(l.pi < count)
ProbeExhaustedEffect(l) ==
  [l EXCEPT !.nee = make_float3(RInt(0)), !.pc = "shade"]

\* __closesthit__radiance, line 267: the sampler's result is added
ShadeGuard(l) == l.pc = "shade"
ShadeEffect(l) ==
  [l EXCEPT !.intersection.accum_color =
               VAdd(@, VMul(l.nee, l.intersection.mask_color)),
            !.contrib = Append(@, <<l.nee, l.intersection.mask_color>>),
            !.pc = "traced"]

(***************************************************************************)
(* __raygen__rg after trace_radiance returns.                              *)
(***************************************************************************)
\* line 152: if (intersection.done) break
BreakGuard(l) == l.pc = "traced" /\ l.intersection.done
BreakEffect(l) == [l EXCEPT !.pc = "endSample"]

\* lines 154-156: the next bounce's ray.  shader.cu draws the direction from
\* the local seed and then takes the seed of the path; shader2.cu draws it
\* from the seed of the path and leaves the local seed alone.
NextBounceGuard(l) == l.pc = "traced" /\ ~l.intersection.done
NextBounce1(l, h) ==
  [Consume(l, h.read) EXCEPT
     !.ray_direction = h.dir,
     !.ray_origin    = l.intersection.xyz,
     !.seed          = l.intersection.seed,
     !.j             = @ + 1,
     !.pc            = "bounce"]
NextBounce2(l, h) ==
  [Consume(l, h.read) EXCEPT
     !.ray_origin        = l.intersection.xyz,
     !.ray_direction     = h.dir,
     !.intersection.seed = h.seed,
     !.j                 = @ + 1,
     !.pc                = "bounce"]
NextBounceEffect(l) ==
  IF variant = 1
  THEN NextBounce1(l, shoot_ray_hemisphere(l.intersection.normal, l.seed))
  ELSE NextBounce2(l, shoot_ray_hemisphere(l.intersection.normal, l.intersection.seed))

\* line 142: the bounce budget is spent
BudgetSpentGuard(l) == l.pc = "bounce" /\ ~(l.j < nb_bounces)
BudgetSpentEffect(l) == [l EXCEPT !.pc = "endSample"]

\* line 158
EndSampleGuard(l) == l.pc = "endSample"
EndSampleEffect(l) ==
  [l EXCEPT !.accum_color = VAdd(@, l.intersection.accum_color),
            !.i  = @ + 1,
            !.pc = "sample"]

\* lines 160-161: the cell of the invocation
ImageIndexNoStride(idx) == idx[2] + idx[1]
ImageIndex(idx) == idx[2] * params.width + idx[1]

\* lines 160-162: the frame's estimate
AverageGuard(l) == l.pc = "sample" /\ ~(l.i < params.samples_per_launch)
AverageEffectSum(l) ==
  [l EXCEPT !.image_index = ImageIndex(l.idx), !.est = l.accum_color,
            !.pc = "blend"]
AverageEffect(l) ==
  LET e == VDivS(l.accum_color, RInt(params.samples_per_launch))
  IN  [l EXCEPT !.image_index = ImageIndex(l.idx),
                !.accum_color = e,
                !.est = e,
                !.pc  = "blend"]

\* the steps of an invocation that touch no buffer
LocalGuard(l) == l.pc \notin {"blend", "store", "display", "done"}

LocalStep(l) ==
  CASE RaygenBeginGuard(l)         -> RaygenBeginEffect(l)
    [] SampleBeginGuard(l)         -> SampleBeginEffect(l)
    [] MissRadianceGuard(l)        -> MissRadianceEffect(l)
    [] HitEmitterGuard(l)          -> HitEmitterEffect(l)
    [] HitDiffuseGuard(l)          -> HitDiffuseEffect(l)
    [] MissOcclusionGuard(l)       -> MissOcclusionEffect(l)
    [] ClosestHitOcclusionGuard(l) -> ClosestHitOcclusionEffect(l)
    [] ProbeHitGuard(l)            -> ProbeHitEffect(l)
    [] ProbeNextGuard(l)           -> ProbeNextEffect(l)
    [] ProbeExhaustedGuard(l)      -> ProbeExhaustedEffect(l)
    [] ShadeGuard(l)               -> ShadeEffect(l)
    [] BreakGuard(l)               -> BreakEffect(l)
    [] NextBounceGuard(l)          -> NextBounceEffect(l)
    [] BudgetSpentGuard(l)         -> BudgetSpentEffect(l)
    [] EndSampleGuard(l)           -> EndSampleEffect(l)
    [] AverageGuard(l)             -> AverageEffect(l)

\* lines 116-162 run to their end
RECURSIVE RunLocal(_)
Step1(l) == IF LocalGuard(l) THEN LocalStep(l) ELSE l
Step4(l) == Step1(Step1(Step1(Step1(l))))
Step16(l) == Step4(Step4(Step4(Step4(l))))
RunLocal(l) == IF LocalGuard(l) THEN RunLocal(Step16(l)) ELSE l

(***************************************************************************)
(* Lines 164-170: the blend and the two stores.                            *)
(***************************************************************************)
make_float4(v, w) == <<v[1], v[2], v[3], w>>
Float3Of4(v)      == <<v[1], v[2], v[3]>>

\* make_color: each channel clamped to [0, 1] and quantised to 8 bits (the
\* sRGB curve between the two is not modelled)
Quantize8(x) ==
  LET c == clamp(x, RInt(0), RInt(1))
      q == (c[1] * 256) \div c[2]
  IN  IF q > 255 THEN 255 ELSE q
make_color(v) == <<Quantize8(v[1]), Quantize8(v[2]), Quantize8(v[3]), 255>>

\* line 164: whether the frame is blended with the stored value
Blends(subframe_index) == subframe_index > 0

\* lines 165-167
BlendWeightHalf(subframe_index) == Rat(1, 2)
BlendWeight(subframe_index) == Rat(1, subframe_index + 1)
Blend(prev, cur, subframe_index) == lerp(prev, cur, BlendWeight(subframe_index))

(***************************************************************************)
(* Actions.  A local step is taken by the set K of invocations at once:    *)
(* one invocation when K is a singleton, two runs in lock step when K is   *)
(* both of them.                                                           *)
(***************************************************************************)
Local(K, G(_), E(_)) ==
  /\ K # {}
  /\ \A k \in K : G(task[k])
  /\ task' = [k \in DOMAIN task |-> IF k \in K THEN E(task[k]) ELSE task[k]]
  /\ UNCHANGED <<variant, ltr, scene, params, accum_buffer, frame_buffer, estimates>>

RaygenBegin(K)         == Local(K, RaygenBeginGuard, RaygenBeginEffect)
SampleBegin(K)         == Local(K, SampleBeginGuard, SampleBeginEffect)
MissRadiance(K)        == Local(K, MissRadianceGuard, MissRadianceEffect)
HitEmitter(K)          == Local(K, HitEmitterGuard, HitEmitterEffect)
HitDiffuse(K)          == Local(K, HitDiffuseGuard, HitDiffuseEffect)
MissOcclusion(K)       == Local(K, MissOcclusionGuard, MissOcclusionEffect)
ClosestHitOcclusion(K) == Local(K, ClosestHitOcclusionGuard, ClosestHitOcclusionEffect)
ProbeHit(K)            == Local(K, ProbeHitGuard, ProbeHitEffect)
ProbeNext(K)           == Local(K, ProbeNextGuard, ProbeNextEffect)
ProbeExhausted(K)      == Local(K, ProbeExhaustedGuard, ProbeExhaustedEffect)
Shade(K)               == Local(K, ShadeGuard, ShadeEffect)
Break(K)               == Local(K, BreakGuard, BreakEffect)
NextBounce(K)          == Local(K, NextBounceGuard, NextBounceEffect)
BudgetSpent(K)         == Local(K, BudgetSpentGuard, BudgetSpentEffect)
EndSample(K)           == Local(K, EndSampleGuard, EndSampleEffect)
Average(K)             == Local(K, AverageGuard, AverageEffect)

\* lines 116-162 of every invocation of the launch, as one step: they read
\* params and the scene, which no invocation writes, and touch no buffer
TraceAll ==
  /\ \A k \in DOMAIN task : task[k].pc = "begin"
  /\ task' = [k \in DOMAIN task |-> RunLocal(task[k])]
  /\ UNCHANGED <<variant, ltr, scene, params, accum_buffer, frame_buffer, estimates>>

\* lines 164-168 when the frame is blended: the cell is read
BlendRead(k) ==
  /\ task[k].pc = "blend"
  /\ Blends(params.subframe_index)
  /\ task' = [task EXCEPT
       ![k].accum_color = Blend(Float3Of4(accum_buffer[task[k].image_index]),
                                task[k].accum_color, params.subframe_index),
       ![k].rd = @ \cup {task[k].image_index},
       ![k].pc = "store"]
  /\ UNCHANGED <<variant, ltr, scene, params, accum_buffer, frame_buffer, estimates>>

\* line 164 when it is not
BlendSkip(k) ==
  /\ task[k].pc = "blend"
  /\ ~Blends(params.subframe_index)
  /\ task' = [task EXCEPT ![k].pc = "store"]
  /\ UNCHANGED <<variant, ltr, scene, params, accum_buffer, frame_buffer, estimates>>

\* line 169
StoreAccum(k) ==
  /\ task[k].pc = "store"
  /\ accum_buffer' = [accum_buffer EXCEPT
       ![task[k].image_index] = make_float4(task[k].accum_color, RInt(1))]
  /\ estimates' = [estimates EXCEPT ![task[k].image_index] = Append(@, task[k].est)]
  /\ task' = [task EXCEPT ![k].wr = @ \cup {task[k].image_index},
                          ![k].pc = "display"]
  /\ UNCHANGED <<variant, ltr, scene, params, frame_buffer>>

\* line 170
StoreFrame(k) ==
  /\ task[k].pc = "display"
  /\ frame_buffer' = [frame_buffer EXCEPT
       ![task[k].image_index] = make_color(task[k].accum_color)]
  /\ task' = [task EXCEPT ![k].fb = @ \cup {task[k].image_index},
                          ![k].pc = "done"]
  /\ UNCHANGED <<variant, ltr, scene, params, accum_buffer, estimates>>

\* the host: once a launch has completed, the next frame is launched with
\* subframe_index one larger, over the same pixels
Launch ==
  /\ \A k \in DOMAIN task : task[k].pc = "done"
  /\ params.subframe_index < MaxFrame
  /\ params' = [params EXCEPT !.subframe_index = @ + 1]
  /\ task' = [k \in DOMAIN task |-> NewTask(task[k].idx, task[k].junk)]
  /\ UNCHANGED <<variant, ltr, scene, accum_buffer, frame_buffer, estimates>>

(***************************************************************************)
(* Initial states.                                                         *)
(***************************************************************************)
SceneOf(ce, cw, se, sw, albedo) ==
  [cam  |-> [c \in Classes |-> IF c = "east" THEN ce ELSE cw],
   surf |-> [c \in Classes |-> IF c = "east" THEN se ELSE sw],
   albedo |-> albedo]

Dim  == <<Rat(1, 2), RInt(1), RInt(0)>>
Glow == <<Rat(3, 2), Rat(1, 2), RInt(1)>>

Scenes ==
  { SceneOf("miss",  "miss",  "miss",  "miss",  Dim),
    SceneOf("light", "miss",  "miss",  "miss",  Dim),
    SceneOf("wall",  "wall",  "wall",  "wall",  Dim),
    SceneOf("wall",  "wall",  "wall",  "wall",  Glow),
    SceneOf("wall",  "wall",  "light", "wall",  Dim),
    SceneOf("wall",  "wall",  "wall",  "light", Dim),
    SceneOf("wall",  "wall",  "wall",  "light", Glow),
    SceneOf("wall",  "wall",  "light", "miss",  Dim),
    SceneOf("wall",  "wall",  "miss",  "wall",  Dim),
    SceneOf("wall",  "miss",  "miss",  "light", Dim),
    SceneOf("miss",  "wall",  "light", "wall",  Glow),
    SceneOf("light", "wall",  "wall",  "miss",  Dim) }

Shapes == {s \in (1..MaxPixels) \X (1..MaxPixels) : s[1] * s[2] <= MaxPixels}

\* what the buffers hold before the first frame
Stale4 == <<RInt(9), RInt(9), RInt(9), RInt(9)>>

InitWorld(w, h) ==
  /\ variant \in {1, 2}
  /\ ltr \in BOOLEAN
  /\ scene \in Scenes
  /\ accum_buffer = [c \in 0..(w * h - 1) |-> Stale4]
  /\ frame_buffer = [c \in 0..(w * h - 1) |-> <<0, 0, 0, 0>>]
  /\ estimates = [c \in 0..(w * h - 1) |-> <<>>]

\* the images of MaxPixels pixels, and their two corner pixels
FullShapes == {s \in Shapes : s[1] * s[2] = MaxPixels}
Corners(w, h) == {<<0, 0>>, <<w - 1, h - 1>>}

\* one pixel of a launch, followed through the frames
Init ==
  \E s \in FullShapes, spp \in 1..MaxSamples :
    \E idx \in Corners(s[1], s[2]) :
      /\ InitWorld(s[1], s[2])
      /\ params = [width |-> s[1], height |-> s[2], samples_per_launch |-> spp,
                   subframe_index |-> 0]
      /\ task = [k \in {1} |-> NewTask(idx, 1)]

Next ==
  \/ \E k \in DOMAIN task : RaygenBegin({k})
  \/ \E k \in DOMAIN task : SampleBegin({k})
  \/ \E k \in DOMAIN task : MissRadiance({k})
  \/ \E k \in DOMAIN task : HitEmitter({k})
  \/ \E k \in DOMAIN task : HitDiffuse({k})
  \/ \E k \in DOMAIN task : MissOcclusion({k})
  \/ \E k \in DOMAIN task : ClosestHitOcclusion({k})
  \/ \E k \in DOMAIN task : ProbeHit({k})
  \/ \E k \in DOMAIN task : ProbeNext({k})
  \/ \E k \in DOMAIN task : ProbeExhausted({k})
  \/ \E k \in DOMAIN task : Shade({k})
  \/ \E k \in DOMAIN task : Break({k})
  \/ \E k \in DOMAIN task : NextBounce({k})
  \/ \E k \in DOMAIN task : BudgetSpent({k})
  \/ \E k \in DOMAIN task : EndSample({k})
  \/ \E k \in DOMAIN task : Average({k})
  \/ \E k \in DOMAIN task : BlendRead(k)
  \/ \E k \in DOMAIN task : BlendSkip(k)
  \/ \E k \in DOMAIN task : StoreAccum(k)
  \/ \E k \in DOMAIN task : StoreFrame(k)
  \/ Launch

Spec == Init /\ [][Next]_vars

(***************************************************************************)
(* The properties of the renderer.                                         *)
(***************************************************************************)
IsEmitter(obj) == obj # "miss" /\ MaterialOf(obj).emit

\* C2: when an occlusion probe has run, the hit flag its caller tests is
\* TRUE exactly when the closest surface along the probe is an emitter.
C2_HitIffEmitter ==
  \A k \in DOMAIN task :
    task[k].pc = "probed" =>
      (Probed(task[k]).hit <=> IsEmitter(task[k].probes[Len(task[k].probes)]))

\* C3: every draw advances the generator, so an invocation never consumes
\* the same generator state twice.
C3_NoStateTwice == \A k \in DOMAIN task : ~task[k].reuse

\* C5: the light sampler makes at most count probes; it returns, at the
\* first probe that finds an emitter, max(dot(normal, direction), 0) times
\* the emission of that emitter, and zero when all count probes find none.
C5_FirstEmitter ==
  \A k \in DOMAIN task :
    task[k].pc = "shade" =>
      /\ Len(task[k].probes) <= count
      /\ \A p \in 1..(Len(task[k].probes) - 1) : ~IsEmitter(task[k].probes[p])
      /\ IF Len(task[k].probes) > 0 /\ IsEmitter(task[k].probes[Len(task[k].probes)])
         THEN task[k].nee =
                VScale(RMax(dot(task[k].intersection.normal, task[k].dir), RInt(0)),
                       MaterialOf(task[k].probes[Len(task[k].probes)]).emission_color)
         ELSE Len(task[k].probes) = count /\ task[k].nee = Zero3

\* C4: a sample issues at most nb_bounces radiance queries and stops before
\* that exactly when a query sets done; when every query hits a diffuse
\* surface there are nb_bounces of them and the radiance of the sample is the
\* sum over the bounces of the sampler's result times the mask after that
\* bounce's multiplication by the albedo.
C4_BoundedBounces ==
  \A k \in DOMAIN task :
    /\ task[k].nq <= nb_bounces
    /\ task[k].pc = "bounce" => task[k].nq = task[k].j
    /\ task[k].pc = "bounce" /\ task[k].nq > 0 => ~task[k].intersection.done
    /\ task[k].pc = "endSample" /\ task[k].nq < nb_bounces =>
         task[k].intersection.done
    /\ task[k].pc = "endSample" /\ ~task[k].intersection.done =>
         /\ task[k].nq = nb_bounces
         /\ Len(task[k].contrib) = nb_bounces
         /\ task[k].contrib[1][2] = scene.albedo
         /\ task[k].contrib[2][2] = VMul(scene.albedo, scene.albedo)
         /\ task[k].contrib[3][2] =
              VMul(VMul(scene.albedo, scene.albedo), scene.albedo)
         /\ task[k].intersection.accum_color =
              VAdd(VAdd(VMul(task[k].contrib[1][1], task[k].contrib[1][2]),
                        VMul(task[k].contrib[2][1], task[k].contrib[2][2])),
                   VMul(task[k].contrib[3][1], task[k].contrib[3][2]))

\* a sample of three diffuse hits, lit at the first and at a later one
C4_Witness ==
  \E k \in DOMAIN task :
    /\ task[k].pc = "endSample"
    /\ ~task[k].intersection.done
    /\ Len(task[k].contrib) = nb_bounces
    /\ task[k].contrib[1][1] # Zero3
    /\ task[k].contrib[3][1] # Zero3

\* C6: where every radiance query misses, each sample ends after its
\* single query with the background colour, and so do the estimate and the
\* accumulated pixel, whatever the frame.
C6_BackgroundOnly ==
  (\A c \in Classes : scene.cam[c] = "miss") =>
    \A k \in DOMAIN task :
      /\ task[k].pc = "endSample" =>
           task[k].nq = 1 /\ task[k].intersection.accum_color = bg_color
      /\ task[k].pc \in {"blend", "store", "display", "done"} =>
           task[k].est = bg_color
      /\ task[k].pc \in {"display", "done"} =>
           Float3Of4(accum_buffer[task[k].image_index]) = bg_color

\* the third frame of two samples a pixel, all of them missing
C6_Witness ==
  /\ \A c \in Classes : scene.cam[c] = "miss"
  /\ params.samples_per_launch > 1
  /\ params.subframe_index > 1
  /\ \E k \in DOMAIN task : task[k].pc = "done"

\* C9: the radiance of a sample starts at (0, 0, 0); it, the sum over the
\* samples and the estimate are non-negative; and within a sample no step
\* makes a channel of the radiance smaller.
C9_RadianceGrows ==
  /\ [](\A k \in DOMAIN task :
          /\ task[k].pc = "bounce" /\ task[k].nq = 0 =>
               task[k].intersection.accum_color = Zero3
          /\ VLe(Zero3, task[k].intersection.accum_color)
          /\ VLe(Zero3, task[k].accum_color)
          /\ VLe(Zero3, task[k].est)
          /\ task[k].pc \in {"display", "done"} =>
               VLe(Zero3, Float3Of4(accum_buffer[task[k].image_index])))
  /\ [][\A k \in DOMAIN task :
          task[k].pc \notin {"sample", "done"} =>
            VLe(task[k].intersection.accum_color,
                task'[k].intersection.accum_color)]_vars

\* a sample that has gathered light at a diffuse hit and is at a later one
C9_Witness ==
  \E k \in DOMAIN task :
    /\ task[k].pc = "shade"
    /\ task[k].nq > 1
    /\ task[k].nee # Zero3
    /\ task[k].intersection.accum_color # Zero3

\* the mean of a sequence of colours
RECURSIVE SumOf(_)
SumOf(es) == IF es = <<>> THEN Zero3 ELSE VAdd(Head(es), SumOf(Tail(es)))
MeanOf(es) == VDivS(SumOf(es), RInt(Len(es)))

\* C1: frame 0 stores its estimate without reading the cell, and once
\* frame N has stored, the cell holds the arithmetic mean of the N + 1
\* estimates the frames 0..N made for the pixel.
C1_RunningMean ==
  \A k \in DOMAIN task :
    /\ params.subframe_index = 0 => task[k].rd = {}
    /\ task[k].pc \in {"display", "done"} =>
         /\ Len(estimates[task[k].image_index]) = params.subframe_index + 1
         /\ estimates[task[k].image_index][params.subframe_index + 1] = task[k].est
         /\ Float3Of4(accum_buffer[task[k].image_index]) =
              MeanOf(estimates[task[k].image_index])

\* the third frame has stored, and the three estimates were not the same
C1_Witness ==
  \E k \in DOMAIN task :
    /\ task[k].pc = "done"
    /\ params.subframe_index = 2
    /\ estimates[task[k].image_index][1] # estimates[task[k].image_index][2]
    /\ estimates[task[k].image_index][2] # estimates[task[k].image_index][3]

\* C10 as stated: within a sample no step makes a channel of the mask
\* larger.
C10_MaskNonIncreasing ==
  [][\A k \in DOMAIN task :
       task[k].pc \notin {"sample", "done"} =>
         VLe(task'[k].intersection.mask_color, task[k].intersection.mask_color)]_vars

\* C10: the mask of a sample starts at (1, 1, 1); only a diffuse hit changes
\* it, multiplying it channel by channel by the albedo of the surface; and
\* no channel grows when every channel of the albedo lies in [0, 1].
C10_MaskProduct ==
  /\ [](\A k \in DOMAIN task :
          task[k].pc = "bounce" /\ task[k].nq = 0 =>
            task[k].intersection.mask_color = One3)
  /\ [][\A k \in DOMAIN task :
          task[k].pc \notin {"sample", "done"} =>
            /\ IF HitDiffuseGuard(task[k]) /\ task'[k] # task[k]
               THEN task'[k].intersection.mask_color =
                      VMul(task[k].intersection.mask_color, scene.albedo)
               ELSE task'[k].intersection.mask_color =
                      task[k].intersection.mask_color
            /\ VLe(Zero3, scene.albedo) /\ VLe(scene.albedo, One3) =>
                 VLe(task'[k].intersection.mask_color,
                     task[k].intersection.mask_color)]_vars

\* a mask that two diffuse hits have made smaller
C10_Witness ==
  \E k \in DOMAIN task :
    /\ VLe(Zero3, scene.albedo) /\ VLe(scene.albedo, One3)
    /\ scene.albedo # One3
    /\ task[k].nq = 2
    /\ task[k].intersection.mask_color = VMul(scene.albedo, scene.albedo)
    /\ task[k].intersection.mask_color # scene.albedo

(***************************************************************************)
(* Two runs of one invocation, on the same inputs, step by step, in the     *)
(* first frame or the last.  The runs differ in what uninitialised memory  *)
(* holds.                                                                  *)
(***************************************************************************)
InitRuns ==
  \E s \in FullShapes, spp \in 1..MaxSamples, f \in {0, MaxFrame} :
    \E idx \in Corners(s[1], s[2]) :
      /\ InitWorld(s[1], s[2])
      /\ params = [width |-> s[1], height |-> s[2], samples_per_launch |-> spp,
                   subframe_index |-> f]
      /\ task = [k \in JunkValues |-> NewTask(idx, k)]

NextRuns ==
  \/ RaygenBegin(DOMAIN task)
  \/ SampleBegin(DOMAIN task)
  \/ MissRadiance(DOMAIN task)
  \/ HitEmitter(DOMAIN task)
  \/ HitDiffuse(DOMAIN task)
  \/ MissOcclusion(DOMAIN task)
  \/ ClosestHitOcclusion(DOMAIN task)
  \/ ProbeHit(DOMAIN task)
  \/ ProbeNext(DOMAIN task)
  \/ ProbeExhausted(DOMAIN task)
  \/ Shade(DOMAIN task)
  \/ Break(DOMAIN task)
  \/ NextBounce(DOMAIN task)
  \/ BudgetSpent(DOMAIN task)
  \/ EndSample(DOMAIN task)
  \/ Average(DOMAIN task)

SpecRuns == InitRuns /\ [][NextRuns]_vars

(***************************************************************************)
(* A whole launch: one invocation per pixel, interleaved at every access   *)
(* to a buffer, frame after frame.                                         *)
(***************************************************************************)
GridScenes ==
  { SceneOf("wall",  "miss",  "miss",  "light", Dim),
    SceneOf("light", "wall",  "wall",  "miss",  Dim) }

PixelOf(k, w) == <<(k - 1) % w, (k - 1) \div w>>

InitGrid ==
  \E s \in FullShapes :
    /\ InitWorld(s[1], s[2])
    /\ scene \in GridScenes
    /\ params = [width |-> s[1], height |-> s[2],
                 samples_per_launch |-> MaxSamples, subframe_index |-> 0]
    /\ task = [k \in 1..(s[1] * s[2]) |-> NewTask(PixelOf(k, s[1]), 1)]

NextGrid ==
  \/ TraceAll
  \/ \E k \in DOMAIN task : BlendRead(k)
  \/ \E k \in DOMAIN task : BlendSkip(k)
  \/ \E k \in DOMAIN task : StoreAccum(k)
  \/ \E k \in DOMAIN task : StoreFrame(k)
  \/ Launch

SpecGrid == InitGrid /\ [][NextGrid]_vars

\* which steps an invocation can take
Enabledness(l) ==
  <<RaygenBeginGuard(l), SampleBeginGuard(l), MissRadianceGuard(l),
    HitEmitterGuard(l), HitDiffuseGuard(l), MissOcclusionGuard(l),
    ClosestHitOcclusionGuard(l), ProbeHitGuard(l), ProbeNextGuard(l),
    ProbeExhaustedGuard(l), ShadeGuard(l), BreakGuard(l), NextBounceGuard(l),
    BudgetSpentGuard(l), EndSampleGuard(l), AverageGuard(l)>>

InSample == {"bounce", "probe", "probed", "shade", "traced", "endSample"}

\* C7: the seed an invocation starts from is a function of the linear index
\* of its pixel and of the frame index, and two runs on the same inputs take
\* the same steps and compute the same values, whatever uninitialised
\* memory held.
C7_SameRuns ==
  \A a \in DOMAIN task :
    /\ task[a].pc = "sample" /\ task[a].i = 0 =>
         task[a].seed = tea(task[a].idx[2] * params.width + task[a].idx[1],
                            params.subframe_index)
    /\ \A b \in DOMAIN task \ {a} :
         /\ task[a].pc = task[b].pc
         /\ task[a].seed = task[b].seed
         /\ task[a].accum_color = task[b].accum_color
         /\ task[a].est = task[b].est
         /\ task[a].pc \in InSample =>
              /\ task[a].intersection.accum_color = task[b].intersection.accum_color
              /\ task[a].intersection.mask_color = task[b].intersection.mask_color
              /\ task[a].intersection.done = task[b].intersection.done
              /\ task[a].intersection.seed = task[b].intersection.seed
              /\ task[a].ray_origin = task[b].ray_origin
              /\ task[a].ray_direction = task[b].ray_direction
         /\ task[a].pc = "probed" => Probed(task[a]).hit = Probed(task[b]).hit
         /\ task[a].pc = "shade" => task[a].nee = task[b].nee
         /\ a < b => Enabledness(task[a]) = Enabledness(task[b])

\* two runs at a probe that found a surface which is no emitter: the
\* record the caller tests holds different uninitialised members in the
\* two, and the same hit flag
C7_Witness ==
  \E a \in DOMAIN task : \E b \in DOMAIN task :
    /\ task[a].pc = "probed"
    /\ task[b].pc = "probed"
    /\ task[a].probes[Len(task[a].probes)] = "wall"
    /\ Probed(task[a]).material # Probed(task[b]).material
    /\ Probed(task[a]).hit = Probed(task[b]).hit

\* C8: an invocation reads and writes no cell of the two buffers but the
\* one at y * width + x, two invocations of a launch have different cells,
\* no invocation changes the frame parameters, and the cells hold, when the
\* launch is over, values that are functions of the inputs alone.
C8_OwnCellOnly ==
  /\ [](\A a \in DOMAIN task :
          /\ task[a].rd \cup task[a].wr \cup task[a].fb \subseteq
               {task[a].idx[2] * params.width + task[a].idx[1]}
          /\ task[a].idx[2] * params.width + task[a].idx[1] \in DOMAIN accum_buffer
          /\ \A b \in DOMAIN task \ {a} :
               task[a].idx[2] * params.width + task[a].idx[1] #
                 task[b].idx[2] * params.width + task[b].idx[1]
          /\ task[a].pc = "done" =>
               /\ Len(estimates[task[a].image_index]) = params.subframe_index + 1
               /\ Float3Of4(accum_buffer[task[a].image_index]) =
                    MeanOf(estimates[task[a].image_index])
               /\ frame_buffer[task[a].image_index] =
                    make_color(MeanOf(estimates[task[a].image_index])))
  /\ []((\A a \in DOMAIN task : task[a].pc = "done") =>
          \A a \in DOMAIN task :
            estimates[task[a].image_index][params.subframe_index + 1] =
              RunLocal(NewTask(task[a].idx, task[a].junk)).est)
  /\ [][params' # params => \A a \in DOMAIN task : task[a].pc = "done"]_vars

\* the second launch over a square image is done, and two of its cells
\* hold different colours
C8_Witness ==
  /\ params.width > 1
  /\ params.height > 1
  /\ params.subframe_index > 0
  /\ \A a \in DOMAIN task : task[a].pc = "done"
  /\ \E a \in DOMAIN task : \E b \in DOMAIN task :
       accum_buffer[task[a].image_index] # accum_buffer[task[b].image_index]
====
